---- MODULE Spec2Model ----
(***************************************************************************)
(* The comparator of package document (src/document/compare.go): six       *)
(* predicates over tagged Values, all answered by the dispatch routine     *)
(* compare(op, l, r).                                                      *)
(*                                                                         *)
(* The Value type, its tags and its three decoders are not part of         *)
(* compare.go; they are modelled from sections 3 and 6 of the              *)
(* specification.  TLC's integers are 32 bits wide, so the widths are      *)
(* scaled: a byte carries one bit, and the 8/16/32/64-bit tags are encoded *)
(* on 1/2/3/6 bytes.  MaxInt64 is the largest signed value of the widest   *)
(* tag, as math.MaxInt64 is in the source.  A float64 keeps 3 significant  *)
(* bits: every integer of the narrower tags converts exactly and some of   *)
(* the widest do not, and its finite range exceeds the widest unsigned     *)
(* integer, as with the 53 significant bits of the real type.              *)
(***************************************************************************)
EXTENDS Integers, Sequences, FiniteSets

VARIABLES l, r, op, ret

vars == <<l, r, op, ret>>

----------------------------------------------------------------------------
(* Bounds of the input space.                                              *)

\* longest Data of a Null, String or Bytes value
MaxLen == 2
\* how many bytes a truncated fixed-width Data may be short of its width
MaxShort == 1

----------------------------------------------------------------------------
(* The value layer: tags, Data, decoders.                                  *)

Byte == 0..1

NullValue == "Null"
BoolValue == "Bool"
Int8Value == "Int8"
Int16Value == "Int16"
Int32Value == "Int32"
Int64Value == "Int64"
Uint8Value == "Uint8"
Uint16Value == "Uint16"
Uint32Value == "Uint32"
Uint64Value == "Uint64"
Float64Value == "Float64"
StringValue == "String"
BytesValue == "Bytes"

SignedTypes == {Int8Value, Int16Value, Int32Value, Int64Value}
UnsignedTypes == {Uint8Value, Uint16Value, Uint32Value, Uint64Value}
FixedTypes == SignedTypes \cup UnsignedTypes \cup {BoolValue, Float64Value}
Types == FixedTypes \cup {NullValue, StringValue, BytesValue}

IsInteger(t) == t \in SignedTypes \cup UnsignedTypes

IsNumber(t) == IsInteger(t) \/ t = Float64Value

\* bytes of a well-formed encoding of a fixed-width tag (scaled)
Width(t) ==
  CASE t = BoolValue -> 1
    [] t \in {Int8Value, Uint8Value} -> 1
    [] t \in {Int16Value, Uint16Value} -> 2
    [] t \in {Int32Value, Uint32Value} -> 3
    [] t \in {Int64Value, Uint64Value, Float64Value} -> 6

RECURSIVE Pow2(_)
Pow2(n) == IF n = 0 THEN 1 ELSE 2 * Pow2(n - 1)

\* math.MaxInt64 at the model's scale
MaxInt64 == Pow2(Width(Int64Value) - 1) - 1

\* big-endian unsigned reading of a byte sequence
RECURSIVE BigEndian(_)
BigEndian(d) ==
  IF d = <<>> THEN 0
  ELSE 2 * BigEndian(SubSeq(d, 1, Len(d) - 1)) + d[Len(d)]

nil == <<>>

DecodeError(v) == <<v>>

\* a signed integer is stored with its sign bit flipped, so that the byte
\* order of encodings is the numeric order
DecodeInt(d) == BigEndian(d) - Pow2(Len(d) - 1)

DecodeUint(d) == BigEndian(d)

\* A float64 is [nan, h]: h counts halves, +Inf and -Inf are +InfH and -InfH.
\* Layout after undoing the order-preserving flip: sign, 3 exponent bits,
\* 2 mantissa bits; exponent 7 is Inf (mantissa 0) or NaN (mantissa not 0),
\* exponent 0 is subnormal.
InfH == 256

FloatOfBits(s, e, m) ==
  LET mag == IF e = 0 THEN m
             ELSE IF e = 7 THEN InfH
             ELSE (4 + m) * Pow2(e - 1)
  IN  IF e = 7 /\ m # 0 THEN [nan |-> TRUE, h |-> 0]
      ELSE [nan |-> FALSE, h |-> IF s = 1 THEN 0 - mag ELSE mag]

\* the stored bits are the IEEE bits with the sign bit flipped for a
\* non-negative number and all bits flipped for a negative one
DecodeFloat(d) ==
  LET b == BigEndian(d)
      top == Pow2(Len(d) - 1)
      fb == IF b >= top THEN b - top ELSE (2 * top - 1) - b
      s == fb \div top
      e == (fb % top) \div 4
      m == fb % 4
  IN  FloatOfBits(s, e, m)

FiniteFloats == {FloatOfBits(0, e, m).h : e \in 0..6, m \in 0..3}

Abs(x) == IF x < 0 THEN 0 - x ELSE x

\* the float64 nearest to the integer x, a tie going to the one with the
\* even mantissa
RoundToFloat(x) ==
  LET t == 2 * Abs(x)
      dist(f) == Abs(f - t)
      best == {f \in FiniteFloats : \A g \in FiniteFloats : dist(f) <= dist(g)}
      even == {f \in best : \E e \in 0..6, m \in {0, 2} : f = FloatOfBits(0, e, m).h}
      mag == IF Cardinality(best) = 1 THEN CHOOSE f \in best : TRUE
             ELSE CHOOSE f \in even : TRUE
  IN  [nan |-> FALSE, h |-> IF x < 0 THEN 0 - mag ELSE mag]

MinInt64 == 0 - MaxInt64 - 1

Float64Of == [x \in MinInt64..MaxInt64 |-> RoundToFloat(x)]

\* float64(x) of an int64 x
ToFloat64(x) == Float64Of[x]

WellFormed(v) == v.Type \in FixedTypes => Len(v.Data) = Width(v.Type)

\* Value.Decode: the native value of the tag, or a decode error
Decode(v) ==
  IF ~WellFormed(v) THEN [err |-> DecodeError(v), val |-> 0]
  ELSE [err |-> nil,
        val |-> CASE v.Type \in SignedTypes -> DecodeInt(v.Data)
                  [] v.Type \in UnsignedTypes -> DecodeUint(v.Data)
                  [] v.Type = Float64Value -> DecodeFloat(v.Data)
                  [] v.Type = BoolValue -> v.Data[1] = 1
                  [] OTHER -> v.Data]

\* Value.DecodeToInt64: integer tags only; a uint64 is converted as int64(x)
DecodeToInt64(v) ==
  IF ~IsInteger(v.Type) \/ ~WellFormed(v) THEN [err |-> DecodeError(v), val |-> 0]
  ELSE IF v.Type \in SignedTypes THEN [err |-> nil, val |-> DecodeInt(v.Data)]
  ELSE LET x == DecodeUint(v.Data)
       IN  [err |-> nil,
            val |-> IF v.Type = Uint64Value /\ x > MaxInt64
                    THEN x - 2 * (MaxInt64 + 1) ELSE x]

\* Value.DecodeToFloat64: number tags only
DecodeToFloat64(v) ==
  IF ~IsNumber(v.Type) \/ ~WellFormed(v)
  THEN [err |-> DecodeError(v), val |-> [nan |-> FALSE, h |-> 0]]
  ELSE IF v.Type = Float64Value THEN [err |-> nil, val |-> DecodeFloat(v.Data)]
  ELSE [err |-> nil, val |-> ToFloat64(DecodeToInt64(v).val)]

----------------------------------------------------------------------------
(* compare.go                                                              *)

operatorEq == 1
operatorGt == 2
operatorGte == 3
operatorLt == 4
operatorLte == 5

Operators == {operatorEq, operatorGt, operatorGte, operatorLt, operatorLte}

\* bytes.Compare: -1, 0 or 1 by lexicographic order
RECURSIVE BytesCompare(_, _)
BytesCompare(a, b) ==
  IF a = <<>> /\ b = <<>> THEN 0
  ELSE IF a = <<>> THEN 0 - 1
  ELSE IF b = <<>> THEN 1
  ELSE IF a[1] < b[1] THEN 0 - 1
  ELSE IF a[1] > b[1] THEN 1
  ELSE BytesCompare(Tail(a), Tail(b))

BytesEqual(a, b) == a = b

\* a decode compare attempts: which decoder, on which operand
Call(fn, arg) == [fn |-> fn, arg |-> arg]

\* what compare hands back: the pair (bool, error) of the source, with the
\* decodes attempted and the rule that returned
Result(ok, err, decodes, rule) ==
  [ok |-> ok, err |-> err, decodes |-> decodes, rule |-> rule]

\* nullRule with the strict operators not told apart from the others
nullRule_AllOps(o, a, b) == a.Type = b.Type

\* lines 55-62
nullRule(o, a, b) ==
  IF o \in {operatorEq, operatorGte, operatorLte} THEN a.Type = b.Type
  ELSE FALSE

\* line 65
directlyComparable(a, b) ==
  \/ a.Type = b.Type
  \/ (a.Type = StringValue /\ b.Type = BytesValue)
  \/ (b.Type = StringValue /\ a.Type = BytesValue)

\* directRule with operatorGte answered as operatorGt
directRule_GteStrict(o, a, b) ==
  CASE o = operatorEq -> BytesEqual(a.Data, b.Data)
    [] o = operatorGt -> BytesCompare(a.Data, b.Data) > 0
    [] o = operatorGte -> BytesCompare(a.Data, b.Data) > 0
    [] o = operatorLt -> BytesCompare(a.Data, b.Data) < 0
    [] o = operatorLte -> BytesCompare(a.Data, b.Data) <= 0

\* lines 66-80
directRule(o, a, b) ==
  CASE o = operatorEq -> BytesEqual(a.Data, b.Data)
    [] o = operatorGt -> BytesCompare(a.Data, b.Data) > 0
    [] o = operatorGte -> BytesCompare(a.Data, b.Data) >= 0
    [] o = operatorLt -> BytesCompare(a.Data, b.Data) < 0
    [] o = operatorLte -> BytesCompare(a.Data, b.Data) <= 0

\* uint64Guard taken for any integer operand
uint64Guard_AnyInteger(a, b) == IsInteger(a.Type) \/ IsInteger(b.Type)

\* line 86
uint64Guard(a, b) == a.Type = Uint64Value \/ b.Type = Uint64Value

\* overflowRule with operatorLt answered like operatorGt
overflowRule_LtLeft(o, a, b) ==
  CASE o = operatorEq -> FALSE
    [] o = operatorGt -> a.Type = Uint64Value
    [] o = operatorGte -> a.Type = Uint64Value
    [] o = operatorLt -> a.Type = Uint64Value
    [] o = operatorLte -> b.Type = Uint64Value

\* overflowRule with operatorLte falling into the operatorGte case
overflowRule_LteLeft(o, a, b) ==
  CASE o = operatorEq -> FALSE
    [] o = operatorGt -> a.Type = Uint64Value
    [] o = operatorGte -> a.Type = Uint64Value
    [] o = operatorLt -> b.Type = Uint64Value
    [] o = operatorLte -> a.Type = Uint64Value

\* lines 104-115: the answer once ui > math.MaxInt64
overflowRule(o, a, b) ==
  CASE o = operatorEq -> FALSE
    [] o = operatorGt -> a.Type = Uint64Value
    [] o = operatorGte -> a.Type = Uint64Value
    [] o = operatorLt -> b.Type = Uint64Value
    [] o = operatorLte -> b.Type = Uint64Value

\* intCompare with operatorGt answered as operatorGte
intCompare_GtAsGte(o, ai, bi) ==
  CASE o = operatorEq -> ai = bi
    [] o = operatorGt -> ai >= bi
    [] o = operatorGte -> ai >= bi
    [] o = operatorLt -> ai < bi
    [] o = operatorLte -> ai <= bi

\* lines 131-144, and 161-174 on the magnitudes of two floats
intCompare(o, ai, bi) ==
  CASE o = operatorEq -> ai = bi
    [] o = operatorGt -> ai > bi
    [] o = operatorGte -> ai >= bi
    [] o = operatorLt -> ai < bi
    [] o = operatorLte -> ai <= bi

\* lines 161-174: the native float64 operators, false on a NaN operand
floatCompare(o, af, bf) ==
  IF af.nan \/ bf.nan THEN FALSE
  ELSE intCompare(o, af.h, bf.h)

\* lines 86-117: done is FALSE when control falls through to line 119
uint64Rule(o, a, b) ==
  LET lv == Decode(a)
      rv == Decode(b)
      ui == IF a.Type = Uint64Value THEN lv.val
            ELSE IF b.Type = Uint64Value THEN rv.val
            ELSE 0
      dl == <<Call("Decode", "l")>>
      dlr == <<Call("Decode", "l"), Call("Decode", "r")>>
  IN  IF lv.err # nil THEN [done |-> TRUE, res |-> Result(FALSE, lv.err, dl, "uint64")]
      ELSE IF rv.err # nil THEN [done |-> TRUE, res |-> Result(FALSE, rv.err, dlr, "uint64")]
      ELSE IF ui > MaxInt64
           THEN [done |-> TRUE, res |-> Result(overflowRule(o, a, b), nil, dlr, "uint64")]
      ELSE [done |-> FALSE, res |-> Result(FALSE, nil, dlr, "uint64")]

\* integerRule with the error of the right operand's decode dropped
integerRule_SwallowRight(o, a, b, pre) ==
  LET ai == DecodeToInt64(a)
      bi == DecodeToInt64(b)
      dl == pre \o <<[fn |-> "DecodeToInt64", arg |-> "l"]>>
      dlr == dl \o <<[fn |-> "DecodeToInt64", arg |-> "r"]>>
  IN  IF ai.err # nil THEN [ok |-> FALSE, err |-> ai.err, decodes |-> dl, rule |-> "integer"]
      ELSE [ok |-> (o = operatorEq /\ ai.val = bi.val)
                     \/ (o \in {operatorGt, operatorGte} /\ ai.val > bi.val)
                     \/ (o \in {operatorGte, operatorLte} /\ ai.val = bi.val)
                     \/ (o \in {operatorLt, operatorLte} /\ ai.val < bi.val),
            err |-> nil, decodes |-> dlr, rule |-> "integer"]

\* lines 120-147; pre holds the decodes made before the rule
integerRule(o, a, b, pre) ==
  LET ai == DecodeToInt64(a)
      bi == DecodeToInt64(b)
      dl == pre \o <<Call("DecodeToInt64", "l")>>
      dlr == dl \o <<Call("DecodeToInt64", "r")>>
  IN  IF ai.err # nil THEN Result(FALSE, ai.err, dl, "integer")
      ELSE IF bi.err # nil THEN Result(FALSE, bi.err, dlr, "integer")
      ELSE Result(intCompare(o, ai.val, bi.val), nil, dlr, "integer")

\* lines 150-177
numericRule(o, a, b, pre) ==
  LET af == DecodeToFloat64(a)
      bf == DecodeToFloat64(b)
      dl == pre \o <<Call("DecodeToFloat64", "l")>>
      dlr == dl \o <<Call("DecodeToFloat64", "r")>>
  IN  IF af.err # nil THEN Result(FALSE, af.err, dl, "numeric")
      ELSE IF bf.err # nil THEN Result(FALSE, bf.err, dlr, "numeric")
      ELSE Result(floatCompare(o, af.val, bf.val), nil, dlr, "numeric")

\* lines 119-179: the rules after the unsigned-64 block
afterUint64(o, a, b, pre) ==
  IF IsInteger(a.Type) /\ IsInteger(b.Type) THEN integerRule(o, a, b, pre)
  ELSE IF IsNumber(a.Type) /\ IsNumber(b.Type) THEN numericRule(o, a, b, pre)
  ELSE Result(FALSE, nil, pre, "fallback")

\* lines 53-180
compare(o, a, b) ==
  IF a.Type = NullValue \/ b.Type = NullValue
  THEN Result(nullRule(o, a, b), nil, <<>>, "null")
  ELSE IF directlyComparable(a, b)
  THEN Result(directRule(o, a, b), nil, <<>>, "direct")
  ELSE IF uint64Guard(a, b)
  THEN LET u == uint64Rule(o, a, b)
       IN  IF u.done THEN u.res ELSE afterUint64(o, a, b, u.res.decodes)
  ELSE afterUint64(o, a, b, <<>>)

IsEqual(v, other) == compare(operatorEq, v, other)

\* IsNotEqual negating without looking at the error
IsNotEqual_NegateAlways(v, other) ==
  LET e == compare(operatorEq, v, other)
  IN  [e EXCEPT !.ok = ~e.ok]

IsNotEqual(v, other) ==
  LET e == IsEqual(v, other)
  IN  IF e.err # nil THEN e ELSE [e EXCEPT !.ok = ~e.ok]

IsGreaterThan(v, other) == compare(operatorGt, v, other)

IsGreaterThanOrEqual(v, other) == compare(operatorGte, v, other)

IsLesserThan(v, other) == compare(operatorLt, v, other)

IsLesserThanOrEqual(v, other) == compare(operatorLte, v, other)

----------------------------------------------------------------------------
(* The state machine: two Values, and calls of the predicates on them.     *)

RECURSIVE SeqsOfLen(_)
SeqsOfLen(n) ==
  IF n = 0 THEN {<<>>}
  ELSE {Append(s, b) : s \in SeqsOfLen(n - 1), b \in Byte}

SeqsBetween(lo, hi) == UNION {SeqsOfLen(n) : n \in lo..hi}

\* n zero bytes: the Data of a truncated encoding
Zeros(n) == [i \in 1..n |-> 0]

\* every well-formed encoding of a fixed-width tag and its truncated ones;
\* every byte sequence up to MaxLen for the other tags
DataOf(t) ==
  IF t \in FixedTypes
  THEN SeqsOfLen(Width(t))
         \cup {Zeros(Width(t) - k) : k \in 1..(IF Width(t) > MaxShort THEN MaxShort ELSE Width(t))}
  ELSE SeqsBetween(0, MaxLen)

Values == UNION {{[Type |-> t, Data |-> d] : d \in DataOf(t)} : t \in Types}

NoCall == "none"

NoResult == Result(FALSE, nil, <<>>, "none")

Init ==
  /\ l \in Values
  /\ r \in Values
  /\ op = NoCall
  /\ ret = NoResult

CallIsEqual ==
  /\ op' = "IsEqual"
  /\ ret' = IsEqual(l, r)
  /\ UNCHANGED <<l, r>>

CallIsNotEqual ==
  /\ op' = "IsNotEqual"
  /\ ret' = IsNotEqual(l, r)
  /\ UNCHANGED <<l, r>>

CallIsGreaterThan ==
  /\ op' = "IsGreaterThan"
  /\ ret' = IsGreaterThan(l, r)
  /\ UNCHANGED <<l, r>>

CallIsGreaterThanOrEqual ==
  /\ op' = "IsGreaterThanOrEqual"
  /\ ret' = IsGreaterThanOrEqual(l, r)
  /\ UNCHANGED <<l, r>>

CallIsLesserThan ==
  /\ op' = "IsLesserThan"
  /\ ret' = IsLesserThan(l, r)
  /\ UNCHANGED <<l, r>>

CallIsLesserThanOrEqual ==
  /\ op' = "IsLesserThanOrEqual"
  /\ ret' = IsLesserThanOrEqual(l, r)
  /\ UNCHANGED <<l, r>>

Next ==
  \/ CallIsEqual
  \/ CallIsNotEqual
  \/ CallIsGreaterThan
  \/ CallIsGreaterThanOrEqual
  \/ CallIsLesserThan
  \/ CallIsLesserThanOrEqual

Spec == Init /\ [][Next]_vars

TypeOK ==
  /\ l \in Values
  /\ r \in Values
  /\ ret.ok \in BOOLEAN
  /\ Len(ret.decodes) <= 4

----------------------------------------------------------------------------
(* Vocabulary of the properties.                                           *)

Called == op # NoCall

FivePredicates ==
  {"IsEqual", "IsGreaterThan", "IsGreaterThanOrEqual", "IsLesserThan",
   "IsLesserThanOrEqual"}

HasNull == l.Type = NullValue \/ r.Type = NullValue

HasUint64 == l.Type = Uint64Value \/ r.Type = Uint64Value

StringBytesPair ==
  \/ (l.Type = StringValue /\ r.Type = BytesValue)
  \/ (l.Type = BytesValue /\ r.Type = StringValue)

\* a < b in the lexicographic order of byte sequences
LexLess(a, b) ==
  \E i \in 1..Len(b) :
    /\ \A j \in 1..(i - 1) : j <= Len(a) /\ a[j] = b[j]
    /\ (i > Len(a) \/ (i <= Len(a) /\ a[i] < b[i]))

\* the number a well-formed numeric Value stands for, in halves
MathVal(v) ==
  IF v.Type = Float64Value THEN DecodeFloat(v.Data).h
  ELSE IF v.Type \in SignedTypes THEN 2 * DecodeInt(v.Data)
  ELSE 2 * DecodeUint(v.Data)

IsNaN(v) == v.Type = Float64Value /\ WellFormed(v) /\ DecodeFloat(v.Data).nan

\* the decode a call of the trace stands for, applied to its operand
Redo(c) ==
  LET v == IF c.arg = "l" THEN l ELSE r
  IN  CASE c.fn = "Decode" -> Decode(v)
        [] c.fn = "DecodeToInt64" -> DecodeToInt64(v)
        [] c.fn = "DecodeToFloat64" -> DecodeToFloat64(v)

Fails(c) == Redo(c).err # nil

\* C1: when at least one operand is Null, whatever the Data, IsEqual,
\* IsGreaterThanOrEqual and IsLesserThanOrEqual are true exactly when both
\* operands are Null, IsGreaterThan and IsLesserThan are false, and no
\* predicate returns an error or attempts a decode.
C1_NullRule ==
  (op \in FivePredicates /\ HasNull) =>
    /\ ret.err = nil
    /\ ret.decodes = <<>>
    /\ op \in {"IsEqual", "IsGreaterThanOrEqual", "IsLesserThanOrEqual"} =>
         (ret.ok <=> (l.Type = NullValue /\ r.Type = NullValue))
    /\ op \in {"IsGreaterThan", "IsLesserThan"} => ~ret.ok

C1_Witness ==
  /\ op = "IsLesserThanOrEqual"
  /\ l.Type = NullValue
  /\ r.Type = NullValue
  /\ l.Data # r.Data
  /\ ret.ok

\* the precondition of the unsigned-64 overflow rule
OverflowCase ==
  /\ ~HasNull
  /\ l.Type # r.Type
  /\ ~StringBytesPair
  /\ HasUint64
  /\ WellFormed(l)
  /\ WellFormed(r)
  /\ DecodeUint((IF l.Type = Uint64Value THEN l ELSE r).Data) > MaxInt64

\* C2: for non-Null operands of different tags, not a String/Bytes pair,
\* one of them a Uint64 above the signed 64-bit maximum and both decoding,
\* IsEqual is false, IsGreaterThan and IsGreaterThanOrEqual are true exactly
\* when the Uint64 is on the left, IsLesserThan and IsLesserThanOrEqual
\* exactly when it is on the right, all without error.
C2_Uint64Overflow ==
  (op \in FivePredicates /\ OverflowCase) =>
    /\ ret.err = nil
    /\ op = "IsEqual" => ~ret.ok
    /\ op \in {"IsGreaterThan", "IsGreaterThanOrEqual"} =>
         (ret.ok <=> l.Type = Uint64Value)
    /\ op \in {"IsLesserThan", "IsLesserThanOrEqual"} =>
         (ret.ok <=> r.Type = Uint64Value)

C2_Witness ==
  /\ op = "IsLesserThan"
  /\ OverflowCase
  /\ l.Type = Int64Value
  /\ r.Type = Uint64Value
  /\ ret.ok

\* the comparison of two numbers that each predicate stands for
MathCompare(name, x, y) ==
  CASE name = "IsEqual" -> x = y
    [] name = "IsGreaterThan" -> x > y
    [] name = "IsGreaterThanOrEqual" -> x >= y
    [] name = "IsLesserThan" -> x < y
    [] name = "IsLesserThanOrEqual" -> x <= y

NumericPair ==
  /\ l.Type # r.Type
  /\ IsNumber(l.Type)
  /\ IsNumber(r.Type)
  /\ WellFormed(l)
  /\ WellFormed(r)
  /\ ~IsNaN(l)
  /\ ~IsNaN(r)

\* C3: for two numeric operands of different tags that decode and carry no
\* NaN, each of the five predicates returns the comparison of the two
\* mathematical values, a Uint64 above the signed maximum included.
C3_NumericPromotion ==
  (op \in FivePredicates /\ NumericPair) =>
    /\ ret.err = nil
    /\ ret.ok <=> MathCompare(op, MathVal(l), MathVal(r))

\* C4: for non-Null operands whose tags differ, are not a String/Bytes pair
\* and are not both numeric, all five predicates return false and no error,
\* whatever the Data.
C4_IncomparableFallback ==
  (/\ op \in FivePredicates
   /\ ~HasNull
   /\ l.Type # r.Type
   /\ ~StringBytesPair
   /\ ~(IsNumber(l.Type) /\ IsNumber(r.Type))) =>
    /\ ~ret.ok
    /\ ret.err = nil

DirectCase == ~HasNull /\ (l.Type = r.Type \/ StringBytesPair)

\* C5: for non-Null operands of the same tag, or a String with a Bytes,
\* IsEqual is true exactly when the Data are equal, the four ordering
\* predicates are the lexicographic byte comparison of left against right,
\* and nothing is decoded and no error returned, malformed Data included.
C5_DirectlyComparable ==
  (op \in FivePredicates /\ DirectCase) =>
    /\ ret.err = nil
    /\ ret.decodes = <<>>
    /\ op = "IsEqual" => (ret.ok <=> l.Data = r.Data)
    /\ op = "IsGreaterThan" => (ret.ok <=> LexLess(r.Data, l.Data))
    /\ op = "IsGreaterThanOrEqual" => (ret.ok <=> ~LexLess(l.Data, r.Data))
    /\ op = "IsLesserThan" => (ret.ok <=> LexLess(l.Data, r.Data))
    /\ op = "IsLesserThanOrEqual" => (ret.ok <=> ~LexLess(r.Data, l.Data))

C5_Witness ==
  /\ op = "IsGreaterThan"
  /\ l.Type = BytesValue
  /\ r.Type = StringValue
  /\ Len(l.Data) > Len(r.Data)
  /\ Len(r.Data) > 0
  /\ ret.ok

\* a pair decided by the direct, unsigned-64 overflow, integer or numeric
\* rule, with every decode succeeding and no NaN operand
ComparablePair ==
  /\ ~HasNull
  /\ ret.rule \in {"direct", "uint64", "integer", "numeric"}
  /\ ret.err = nil
  /\ ~IsNaN(l)
  /\ ~IsNaN(r)

Count(b) == IF b THEN 1 ELSE 0

\* C6: on a comparable pair exactly one of IsGreaterThan, IsLesserThan and
\* IsEqual is true.
C6_Trichotomy ==
  (op \in {"IsEqual", "IsGreaterThan", "IsLesserThan"} /\ ComparablePair) =>
    LET g == IF op = "IsGreaterThan" THEN ret ELSE IsGreaterThan(l, r)
        s == IF op = "IsLesserThan" THEN ret ELSE IsLesserThan(l, r)
        e == IF op = "IsEqual" THEN ret ELSE IsEqual(l, r)
    IN  /\ g.err = nil /\ s.err = nil /\ e.err = nil
        /\ Count(g.ok) + Count(s.ok) + Count(e.ok) = 1

C6_Witness ==
  /\ op = "IsEqual"
  /\ ComparablePair
  /\ ret.rule = "numeric"
  /\ ret.ok
  /\ l.Type = Float64Value
  /\ r.Type = Uint64Value

\* C7: IsNotEqual returns the negation of IsEqual's boolean with no error
\* when IsEqual returns no error, and IsEqual's error with IsEqual's boolean
\* when it returns one.
C7_NegationLaw ==
  op = "IsNotEqual" =>
    LET e == IsEqual(l, r)
    IN  IF e.err = nil
        THEN ret.err = nil /\ (ret.ok <=> ~e.ok)
        ELSE ret.err = e.err /\ (ret.ok <=> e.ok)

C7_Witness ==
  /\ op = "IsNotEqual"
  /\ ret.err # nil
  /\ ret.err = DecodeError(r)
  /\ ~ret.ok

\* C8: a predicate returns an error exactly when a decode it attempts
\* fails; then the boolean is false, the error is the one of that decode,
\* every earlier decode succeeded, nothing is attempted after it, and the
\* left operand is always decoded before the right one.
C8_DecodeErrors ==
  Called =>
    LET n == Len(ret.decodes)
    IN  /\ ret.err # nil <=> \E i \in 1..n : Fails(ret.decodes[i])
        /\ ret.err # nil =>
             /\ ~ret.ok
             /\ Fails(ret.decodes[n])
             /\ ret.err = Redo(ret.decodes[n]).err
             /\ \A i \in 1..(n - 1) : ~Fails(ret.decodes[i])
        /\ \A i \in 1..n :
             IF i % 2 = 1 THEN ret.decodes[i].arg = "l"
             ELSE ret.decodes[i] = Call(ret.decodes[i - 1].fn, "r")

C8_Witness ==
  /\ op = "IsLesserThan"
  /\ ret.rule = "numeric"
  /\ Len(ret.decodes) = 2
  /\ ret.err = DecodeError(r)
  /\ WellFormed(l)

\* C9 as stated: a single predicate call performs at most two decode
\* operations, a Uint64 within the signed range against another numeric tag
\* included.
C9_AtMostTwoDecodes == Called => Len(ret.decodes) <= 2

\* a Uint64 within the signed range against a different numeric tag
SmallUint64Pair ==
  /\ NumericPair
  /\ HasUint64
  /\ DecodeUint((IF l.Type = Uint64Value THEN l ELSE r).Data) <= MaxInt64

\* C9, amended: a single predicate call performs at most four decode
\* operations, at most two when neither operand is a Uint64, and exactly
\* four for a Uint64 within the signed range against a different numeric
\* tag when every decode succeeds.
C9_AtMostFourDecodes ==
  Called =>
    /\ Len(ret.decodes) <= 4
    /\ ~HasUint64 => Len(ret.decodes) <= 2
    /\ SmallUint64Pair => Len(ret.decodes) = 4

C9_Witness ==
  /\ op = "IsGreaterThanOrEqual"
  /\ SmallUint64Pair
  /\ ret.rule = "integer"
  /\ Len(ret.decodes) = 4
  /\ ret.err = nil
  /\ ret.ok

\* C10: when no decode fails, IsGreaterThan(a, b) equals IsLesserThan(b, a)
\* and IsGreaterThanOrEqual(a, b) equals IsLesserThanOrEqual(b, a).
C10_SwapDuality ==
  LET dual == CASE op = "IsGreaterThan" -> IsLesserThan(r, l)
                [] op = "IsGreaterThanOrEqual" -> IsLesserThanOrEqual(r, l)
                [] op = "IsLesserThan" -> IsGreaterThan(r, l)
                [] op = "IsLesserThanOrEqual" -> IsGreaterThanOrEqual(r, l)
                [] OTHER -> ret
  IN  (Called /\ ret.err = nil /\ dual.err = nil) => (ret.ok <=> dual.ok)

C10_Witness ==
  /\ op = "IsGreaterThan"
  /\ OverflowCase
  /\ l.Type = Uint64Value
  /\ r.Type = Float64Value
  /\ ~IsNaN(r)
  /\ ret.ok
  /\ IsLesserThan(r, l).ok

====
